---------------------------- MODULE Spec2Model ----------------------------
(***************************************************************************)
(* File upload service: an Express server that buffers one multipart file  *)
(* (multer, 10 MiB limit), streams it to Cloudinary, stores a File         *)
(* document in MongoDB (mongoose), lists and deletes the documents; and    *)
(* the React client (App.js) that drives it.                               *)
(*                                                                         *)
(* Spec       : the server, with any number (bounded) of concurrent        *)
(*              requests interleaving at their await points.               *)
(* ClientSpec : the browser client, the server's answers being inputs.     *)
(***************************************************************************)
EXTENDS Integers, Sequences, FiniteSets, TLC

\* ---------------------------------------------------------------- bounds
MaxRequests == 3    \* requests the server receives in one behaviour
MaxPending == 2     \* client: requests of one kind in flight at once

\* multer limits.fileSize, 10 * 1024 * 1024 bytes
FILE_SIZE_LIMIT == 10485760

\* The POST /api/upload and the DELETE /api/files/:id requests, each kind
\* numbered in the order of arrival
UpReqs  == 1..MaxRequests
DelReqs == 1..MaxRequests

\* JavaScript's null / undefined
Null == [null |-> TRUE]

\* No error was caught
NoError == [source |-> "none", message |-> ""]

\* The files a client may put in the "file" field: a name and a size in bytes.
Uploadables ==
    {[originalname |-> "a.png", size |-> 1],
     [originalname |-> "b.png", size |-> FILE_SIZE_LIMIT],
     [originalname |-> "c.png", size |-> FILE_SIZE_LIMIT + 1]}

\* What req.params.id may be: the hex string of an ObjectId (here numbered
\* 1..MaxRequests, the ids the store can ever hold) or a string that is none.
IdParams == [hex : {TRUE}, n : 1..MaxRequests] \cup {[hex |-> FALSE, n |-> 0]}

\* Error texts of the upstream services (error.message). A message is a
\* tuple of its parts: a template literal `Cloudinary error: ${m}` is
\* <<"Cloudinary error: ", m>>, the empty string is <<>>.
CloudinaryErrorText == "Invalid api_key"
StreamErrorText     == "write ECONNRESET"
MongoErrorText      == "buffering timed out"
CastErrorText       == "Cast to ObjectId failed"

VARIABLES
    \* ---- server (src/unnamed/part_000)
    db,            \* the File collection: its documents, in insertion order
    cloud,         \* the objects held by Cloudinary (their secure_url)
    now,           \* the last value read from Date.now()
    nextId,        \* the next ObjectId / Cloudinary public id to be generated
    up,            \* up[r]: the state of upload request r: where it is (pc),
                   \* the file field of its body (sent), req.file (file),
                   \* result, fileDoc (doc) and the error caught
    upResp,        \* upResp[r]: the responses sent for upload request r
    del,           \* del[d]: the state of delete request d: where it is (pc),
                   \* req.params.id (id), file and the error caught
    delResp,       \* delResp[d]: the responses sent for delete request d
    listResp,      \* the last answer of GET /api/files: its status and its
                   \* body, the files (200) or {error} (500)
    received,      \* number of requests received so far
    \* ---- history of the server (read by the properties only)
    saved,         \* saved[r]: the documents request r inserted in db
    storageCalls,  \* storageCalls[r]: upload_stream calls started by r
    \* ---- browser client (src/frontend/src/App.js)
    selectedFile, uploading, files, message,
    posting,       \* number of axios.post calls of handleUpload in flight
    fetching,      \* number of fetchFiles() calls in flight
    deleting,      \* number of axios.delete calls in flight
    testing        \* testBackendConnection() is in flight

serverVars == <<db, cloud, now, nextId, up, upResp, del, delResp, listResp,
                received, saved, storageCalls>>
clientVars == <<selectedFile, uploading, files, message, posting, fetching,
                deleting, testing>>
vars == <<serverVars, clientVars>>

\* ------------------------------------------------------------- mongoose

\* cloudinary result.secure_url of the object with public id n
SecureUrl(n) == <<"https://res.cloudinary.com/mern-uploads/", n>>

\* new File({filename, originalName, cloudinaryUrl}): _id is generated and
\* uploadDate defaults to Date.now at construction.
NewFile(originalname, secure_url, date) ==
    [_id |-> nextId,
     filename |-> originalname,
     originalName |-> originalname,
     cloudinaryUrl |-> secure_url,
     uploadDate |-> date]

\* What Date.now() can return: the clock does not go back, and since it was
\* last read a millisecond has passed or not.
DateNow == {now, now + 1}

\* The documents of the collection
Docs == {db[i] : i \in DOMAIN db}

\* Mutant: sort({uploadDate: 1})
Newest_ascending(S) == {f \in S : \A g \in S : g.uploadDate >= f.uploadDate}

\* sort({uploadDate: -1}): the documents of S that go first, those no other
\* document of S is newer than
Newest(S) == {f \in S : \A g \in S : g.uploadDate <= f.uploadDate}

\* The orders the sort can put the documents S in: a newest one, then the
\* rest sorted; which of several documents of one uploadDate goes first is
\* the store's choice.
RECURSIVE SortByUploadDate(_)
SortByUploadDate(S) ==
    IF S = {} THEN {<<>>}
    ELSE UNION {{<<f>> \o rest : rest \in SortByUploadDate(S \ {f})} : f \in Newest(S)}

\* Mutant: File.find(), the documents in their natural order
FindSorted_natural == {db}

\* File.find().sort({uploadDate: -1}): what the query can answer now
FindSorted == SortByUploadDate(Docs)

\* File.findById(id), for a well-formed id
FindById(n) ==
    IF \E f \in Docs : f._id = n THEN CHOOSE f \in Docs : f._id = n ELSE Null

\* ---------------------------------------------------------------- Init

ServerInit ==
    /\ db = <<>>
    /\ cloud = {}
    /\ now = 0
    /\ nextId = 1
    /\ up = [r \in UpReqs |-> [pc |-> "new", sent |-> Null, file |-> Null,
                               result |-> Null,
                               doc |-> Null, error |-> NoError]]
    /\ upResp = [r \in UpReqs |-> <<>>]
    /\ del = [d \in DelReqs |-> [pc |-> "new", id |-> Null, file |-> Null,
                               error |-> NoError]]
    /\ delResp = [d \in DelReqs |-> <<>>]
    /\ listResp = Null
    /\ received = 0
    /\ saved = [r \in UpReqs |-> {}]
    /\ storageCalls = [r \in UpReqs |-> 0]

\* App after its first render and its mount effect (fetchFiles();
\* testBackendConnection()).
ClientInit ==
    /\ selectedFile = Null
    /\ uploading = FALSE
    /\ files = <<>>
    /\ message = <<>>
    /\ posting = 0
    /\ fetching = 1
    /\ deleting = 0
    /\ testing = TRUE

Init == ServerInit /\ ClientInit

\* ------------------------------------------------- POST /api/upload

\* res.status(s).json(body) of upload request r
UpSend(r, s, body) == upResp' = [upResp EXCEPT ![r] = Append(@, [status |-> s, body |-> body])]

\* Mutant: the error text is not passed on
UploadFailed_noDetails(msg) == [error |-> "Upload failed", details |-> <<>>]

\* catch (error): res.status(500).json({error: 'Upload failed', details: error.message})
UploadFailed(msg) == [error |-> "Upload failed", details |-> msg]

\* Mutant: no limits.fileSize
WithinLimit_unlimited(f) == TRUE

\* multer's limits.fileSize: a file of more than fileSize bytes is refused
WithinLimit(f) == f.size <= FILE_SIZE_LIMIT

\* upload.single('file') refuses the body: its file is over the limit
MulterRejects(f) == f # Null /\ ~WithinLimit(f)

\* Mutant: the presence check is missing
NoFileUploaded_unchecked(file) == FALSE

\* if (!req.file)
NoFileUploaded(file) == file = Null

\* A request with the file field f (Null: none) arrives. upload.single('file')
\* parses the body into req.file; a body without the field leaves req.file
\* undefined; a file over the limit ends the request with multer's error
\* (next(err)) and the handler never runs. Otherwise the handler runs up to
\* its first await: the presence check, then the upload_stream call.
UploadReceive(r, f) ==
    /\ received < MaxRequests
    /\ received' = received + 1
    /\ up[r].pc = "new"
    /\ \A q \in UpReqs : q < r => up[q].pc # "new"
    /\ IF MulterRejects(f)
       THEN /\ up' = [up EXCEPT ![r].pc = "done",
                                ![r].sent = f,
                                ![r].error = [source |-> "multer", message |-> "File too large"]]
            /\ UpSend(r, 500, [error |-> "MulterError: File too large"])
            /\ UNCHANGED storageCalls
       ELSE IF NoFileUploaded(f)
       THEN /\ up' = [up EXCEPT ![r].pc = "done", ![r].sent = f, ![r].file = f]
            /\ UpSend(r, 400, [error |-> "No file uploaded"])
            /\ UNCHANGED storageCalls
       ELSE /\ up' = [up EXCEPT ![r].pc = "awaitCloud", ![r].sent = f, ![r].file = f]
            /\ storageCalls' = [storageCalls EXCEPT ![r] = @ + 1]
            /\ UNCHANGED upResp
    /\ UNCHANGED <<db, cloud, now, nextId, del, delResp, listResp, saved, clientVars>>

\* The upload_stream callback without error: resolve(result); the handler goes
\* on to build the document, at the time t, and starts fileDoc.save().
CloudinaryOk(r, t) ==
    /\ up[r].pc = "awaitCloud"
    /\ now' = t
    /\ cloud' = cloud \cup {SecureUrl(nextId)}
    /\ up' = [up EXCEPT ![r].pc = "awaitSave",
                        ![r].result = [secure_url |-> SecureUrl(nextId)],
                        ![r].doc = NewFile(up[r].file.originalname, SecureUrl(nextId), t)]
    /\ nextId' = nextId + 1
    /\ UNCHANGED <<db, upResp, del, delResp, listResp, saved, storageCalls, received, clientVars>>

\* The promise of the storage call rejects with `msg` about upstream error
\* `cause`: the catch block answers 500.
UploadRejected(r, cause, msg) ==
    /\ up' = [up EXCEPT ![r].pc = "done", ![r].error = cause]
    /\ UpSend(r, 500, UploadFailed(msg))
    /\ UNCHANGED <<db, cloud, now, nextId, del, delResp, listResp, saved,
                   storageCalls, received, clientVars>>

\* Mutant: the callback's error is logged and the result resolved all the same
CloudinaryError_resolved(r) ==
    /\ up[r].pc = "awaitCloud"
    /\ up' = [up EXCEPT ![r].pc = "awaitSave",
                        ![r].error = [source |-> "cloudinary", message |-> CloudinaryErrorText],
                        ![r].doc = NewFile(up[r].file.originalname, <<>>, now)]
    /\ nextId' = nextId + 1
    /\ UNCHANGED <<db, cloud, now, upResp, del, delResp, listResp, saved,
                   storageCalls, received, clientVars>>

\* The upload_stream callback with an error
CloudinaryError(r) ==
    /\ up[r].pc = "awaitCloud"
    /\ UploadRejected(r, [source |-> "cloudinary", message |-> CloudinaryErrorText],
                      <<"Cloudinary error: ", CloudinaryErrorText>>)

\* uploadStream.on('error')
StreamError(r) ==
    /\ up[r].pc = "awaitCloud"
    /\ UploadRejected(r, [source |-> "stream", message |-> StreamErrorText],
                      <<"Stream error: ", StreamErrorText>>)

\* res.json({message: 'File uploaded successfully', file: {...}})
Uploaded200(fileDoc) ==
    [message |-> "File uploaded successfully",
     file |-> [id |-> fileDoc._id,
               filename |-> fileDoc.filename,
               url |-> fileDoc.cloudinaryUrl,
               uploadDate |-> fileDoc.uploadDate]]

\* Mutant: the document replaces the one of the same filename (an upsert)
Save_upsert(r) ==
    /\ up[r].pc = "awaitSave"
    /\ db' = Append(SelectSeq(db, LAMBDA f : f.filename # up[r].doc.filename), up[r].doc)
    /\ saved' = [saved EXCEPT ![r] = @ \cup {up[r].doc}]
    /\ up' = [up EXCEPT ![r].pc = "done"]
    /\ UpSend(r, 200, Uploaded200(up[r].doc))
    /\ UNCHANGED <<cloud, now, nextId, del, delResp, listResp, storageCalls,
                   received, clientVars>>

\* await fileDoc.save() returns, the document inserted, and the request is
\* answered. (The answer is no state another request reads, so the insertion
\* and the answer are one step.)
Save(r) ==
    /\ up[r].pc = "awaitSave"
    /\ db' = Append(db, up[r].doc)
    /\ saved' = [saved EXCEPT ![r] = @ \cup {up[r].doc}]
    /\ up' = [up EXCEPT ![r].pc = "done"]
    /\ UpSend(r, 200, Uploaded200(up[r].doc))
    /\ UNCHANGED <<cloud, now, nextId, del, delResp, listResp, storageCalls,
                   received, clientVars>>

\* await fileDoc.save() throws: nothing was inserted.
SaveError(r) ==
    /\ up[r].pc = "awaitSave"
    /\ up' = [up EXCEPT ![r].pc = "done",
                        ![r].error = [source |-> "mongo", message |-> MongoErrorText]]
    /\ UpSend(r, 500, UploadFailed(<<MongoErrorText>>))
    /\ UNCHANGED <<db, cloud, now, nextId, del, delResp, listResp, saved,
                   storageCalls, received, clientVars>>

UploadStep(r) ==
    \/ \E f \in Uploadables \cup {Null} : UploadReceive(r, f)
    \/ \E t \in DateNow : CloudinaryOk(r, t)
    \/ CloudinaryError(r)
    \/ StreamError(r)
    \/ Save(r)
    \/ SaveError(r)

\* ------------------------------------------------- GET /api/files

\* const files = await File.find().sort({uploadDate: -1}); res.json(files)
ListFiles ==
    /\ received < MaxRequests
    /\ received' = received + 1
    /\ \E s \in FindSorted :
          listResp' = [status |-> 200, files |-> s, error |-> ""]
    /\ UNCHANGED <<db, cloud, now, nextId, up, upResp, del, delResp, saved,
                   storageCalls, clientVars>>

\* The query throws: res.status(500).json({error: 'Failed to fetch files'})
ListError ==
    /\ received < MaxRequests
    /\ received' = received + 1
    /\ listResp' = [status |-> 500, files |-> <<>>, error |-> "Failed to fetch files"]
    /\ UNCHANGED <<db, cloud, now, nextId, up, upResp, del, delResp, saved,
                   storageCalls, clientVars>>

\* ------------------------------------------------- DELETE /api/files/:id

DelSend(d, s, body) == delResp' = [delResp EXCEPT ![d] = Append(@, [status |-> s, body |-> body])]

\* catch (error): res.status(500).json({error: 'Delete failed'})
DeleteFailed(d, cause) ==
    /\ del' = [del EXCEPT ![d].pc = "done", ![d].error = cause]
    /\ DelSend(d, 500, [error |-> "Delete failed"])

\* The request arrives with req.params.id = id and await File.findById(id)
\* returns or throws. An id that is not the hex string of an ObjectId cannot
\* be cast: the query rejects with a CastError, which the catch block answers.
DeleteFind(d, id) ==
    /\ received < MaxRequests
    /\ received' = received + 1
    /\ del[d].pc = "new"
    /\ \A q \in DelReqs : q < d => del[q].pc # "new"
    /\ IF ~id.hex
       THEN /\ del' = [del EXCEPT ![d].pc = "done", ![d].id = id,
                                  ![d].error = [source |-> "cast", message |-> CastErrorText]]
            /\ DelSend(d, 500, [error |-> "Delete failed"])
       ELSE IF FindById(id.n) = Null
       THEN /\ del' = [del EXCEPT ![d].pc = "done", ![d].id = id]
            /\ DelSend(d, 404, [error |-> "File not found"])
       ELSE /\ del' = [del EXCEPT ![d].pc = "awaitDelete", ![d].id = id,
                                  ![d].file = FindById(id.n)]
            /\ UNCHANGED delResp
    /\ UNCHANGED <<db, cloud, now, nextId, up, upResp, listResp, saved,
                   storageCalls, clientVars>>

\* await File.findById throws because the store failed
DeleteFindError(d, id) ==
    /\ received < MaxRequests
    /\ received' = received + 1
    /\ del[d].pc = "new"
    /\ \A q \in DelReqs : q < d => del[q].pc # "new"
    /\ del' = [del EXCEPT ![d].pc = "done", ![d].id = id,
                          ![d].error = [source |-> "mongo", message |-> MongoErrorText]]
    /\ DelSend(d, 500, [error |-> "Delete failed"])
    /\ UNCHANGED <<db, cloud, now, nextId, up, upResp, listResp, saved,
                   storageCalls, clientVars>>

\* Mutant: the stored object is destroyed with the document
DeleteRemove_destroy(d) ==
    /\ del[d].pc = "awaitDelete"
    /\ db' = SelectSeq(db, LAMBDA f : f._id # del[d].id.n)
    /\ cloud' = cloud \ {del[d].file.cloudinaryUrl}
    /\ del' = [del EXCEPT ![d].pc = "done"]
    /\ delResp' = [delResp EXCEPT ![d] = Append(@, [status |-> 200,
                       body |-> [message |-> "File deleted from database"]])]
    /\ UNCHANGED <<now, nextId, up, upResp, listResp, saved, storageCalls,
                   received, clientVars>>

\* await File.findByIdAndDelete(req.params.id); res.json({message}). Only the
\* document is removed ("just delete from MongoDB").
DeleteRemove(d) ==
    /\ del[d].pc = "awaitDelete"
    /\ db' = SelectSeq(db, LAMBDA f : f._id # del[d].id.n)
    /\ del' = [del EXCEPT ![d].pc = "done"]
    /\ DelSend(d, 200, [message |-> "File deleted from database"])
    /\ UNCHANGED <<cloud, now, nextId, up, upResp, listResp, saved,
                   storageCalls, received, clientVars>>

\* await File.findByIdAndDelete throws because the store failed
DeleteRemoveError(d) ==
    /\ del[d].pc = "awaitDelete"
    /\ DeleteFailed(d, [source |-> "mongo", message |-> MongoErrorText])
    /\ UNCHANGED <<db, cloud, now, nextId, up, upResp, listResp, saved,
                   storageCalls, received, clientVars>>

DeleteStep(d) ==
    \/ \E id \in IdParams : DeleteFind(d, id)
    \/ \E id \in IdParams : DeleteFindError(d, id)
    \/ DeleteRemove(d)
    \/ DeleteRemoveError(d)

ServerNext ==
    \/ \E r \in UpReqs : UploadStep(r)
    \/ \E d \in DelReqs : DeleteStep(d)
    \/ ListFiles
    \/ ListError

Next == ServerNext

Spec == Init /\ [][Next]_vars

\* =================================================== browser client (App.js)

\* What the file picker can hand over: a file, or nothing (files[0] undefined)
ClientFiles == {[originalname |-> "a.png", size |-> 1],
                [originalname |-> "b.png", size |-> FILE_SIZE_LIMIT + 1]}

\* The bodies GET /files can answer: lists of documents, here by their _id
FileLists == {<<>>, <<1>>, <<2, 1>>}

\* The error texts the server puts in data.error
ServerErrors == {"Upload failed", "No file uploaded"}

\* handleFileSelect, from the file input (disabled={uploading})
HandleFileSelect(f) ==
    /\ ~uploading
    /\ selectedFile' = f
    /\ message' = <<>>
    /\ UNCHANGED <<uploading, files, posting, fetching, deleting, testing, serverVars>>

\* The upload button: disabled={!selectedFile || uploading}
UploadDisabled == selectedFile = Null \/ uploading

\* handleUpload up to its await: the guard, setUploading(true), axios.post
HandleUpload ==
    IF selectedFile = Null
    THEN /\ message' = <<"Please select a file">>
         /\ UNCHANGED <<uploading, posting>>
    ELSE /\ uploading' = TRUE
         /\ posting' = posting + 1
         /\ UNCHANGED message

\* onClick={handleUpload}
ClickUpload ==
    /\ ~UploadDisabled
    /\ HandleUpload
    /\ UNCHANGED <<selectedFile, files, fetching, deleting, testing, serverVars>>

\* Mutant: no finally block
Finally_missing == uploading' = uploading

\* finally { setUploading(false) }
Finally == uploading' = FALSE

\* The POST is answered 2xx: the rest of the try block, then finally.
\* fetchFiles() is called and not awaited.
PostSuccess ==
    /\ posting > 0
    /\ fetching < MaxPending
    /\ posting' = posting - 1
    /\ message' = <<"File uploaded successfully!">>
    /\ selectedFile' = Null
    /\ fetching' = fetching + 1
    /\ Finally
    /\ UNCHANGED <<files, deleting, testing, serverVars>>

\* catch (error), then finally; `msg` is what the branch taken shows
PostFailed(msg) ==
    /\ posting > 0
    /\ posting' = posting - 1
    /\ message' = msg
    /\ Finally
    /\ UNCHANGED <<selectedFile, files, fetching, deleting, testing, serverVars>>

\* error.response: the server answered with an error status
PostErrorResponse(e) == PostFailed(<<"Upload failed: ", e>>)

\* error.request: no answer came
PostNoResponse == PostFailed(<<"Upload failed: Cannot connect to server">>)

\* neither: the request could not be set up
PostSetupError == PostFailed(<<"Upload failed: ", "Network Error">>)

PostSettles ==
    \/ PostSuccess
    \/ \E e \in ServerErrors : PostErrorResponse(e)
    \/ PostNoResponse
    \/ PostSetupError

\* fetchFiles: the GET is answered, setFiles(response.data)
FetchOk(list) ==
    /\ fetching > 0
    /\ fetching' = fetching - 1
    /\ files' = list
    /\ UNCHANGED <<selectedFile, uploading, message, posting, deleting, testing, serverVars>>

\* fetchFiles: the GET fails
FetchError ==
    /\ fetching > 0
    /\ fetching' = fetching - 1
    /\ message' = <<"Error fetching files. Make sure backend is running.">>
    /\ UNCHANGED <<selectedFile, uploading, files, posting, deleting, testing, serverVars>>

\* testBackendConnection settles
TestOk ==
    /\ testing
    /\ testing' = FALSE
    /\ UNCHANGED <<selectedFile, uploading, files, message, posting, fetching, deleting, serverVars>>

TestError ==
    /\ testing
    /\ testing' = FALSE
    /\ message' = <<"Cannot connect to backend server. Make sure it's running on port 5000.">>
    /\ UNCHANGED <<selectedFile, uploading, files, posting, fetching, deleting, serverVars>>

\* handleDelete(file._id) from a file card, up to its await; `confirmed` is
\* the answer to window.confirm
HandleDelete(fileId, confirmed) ==
    /\ \E i \in DOMAIN files : files[i] = fileId
    /\ deleting < MaxPending
    /\ deleting' = IF confirmed THEN deleting + 1 ELSE deleting
    /\ UNCHANGED <<selectedFile, uploading, files, message, posting, fetching, testing, serverVars>>

\* The DELETE is answered 2xx: fetchFiles() is called
DeleteOk ==
    /\ deleting > 0
    /\ fetching < MaxPending
    /\ deleting' = deleting - 1
    /\ message' = <<"File deleted successfully">>
    /\ fetching' = fetching + 1
    /\ UNCHANGED <<selectedFile, uploading, files, posting, testing, serverVars>>

\* The DELETE fails
DeleteError(e) ==
    /\ deleting > 0
    /\ deleting' = deleting - 1
    /\ message' = <<"Delete failed: ", e>>
    /\ UNCHANGED <<selectedFile, uploading, files, posting, fetching, testing, serverVars>>

ClientNext ==
    \/ \E f \in ClientFiles \cup {Null} : HandleFileSelect(f)
    \/ ClickUpload
    \/ PostSuccess
    \/ \E e \in ServerErrors : PostErrorResponse(e)
    \/ PostNoResponse
    \/ PostSetupError
    \/ \E list \in FileLists : FetchOk(list)
    \/ FetchError
    \/ TestOk
    \/ TestError
    \/ \E id \in 1..2, c \in BOOLEAN : HandleDelete(id, c)
    \/ DeleteOk
    \/ \E e \in {"File not found", "Delete failed"} : DeleteError(e)

\* The client; a request in flight settles (the event loop runs the
\* continuation of a settled promise).
ClientSpec == Init /\ [][ClientNext]_vars /\ WF_vars(PostSettles)

\* ================================================================ properties

\* Upload request r has been answered / its answer
Answered(r) == Len(upResp[r]) > 0
Answer(r) == upResp[r][1]

\* The remote storage call of request r failed
StorageFailed(r) == up[r].error.source \in {"cloudinary", "stream"}

\* Some part of the message is the text t
Carries(msg, t) == \E i \in DOMAIN msg : msg[i] = t

\* C1: an upload whose remote storage call fails (callback error or stream
\* error) adds no document to the collection; a document is inserted only by a
\* request whose own storage call succeeded, after that call, and its
\* cloudinaryUrl is the secure_url that call returned, an object the storage
\* holds.
C1_RecordOnlyAfterStorageSuccess ==
    \A r \in UpReqs :
        /\ StorageFailed(r) => saved[r] = {} /\ up[r].doc \notin Docs
        /\ \A f \in saved[r] :
              /\ up[r].result # Null
              /\ storageCalls[r] = 1
              /\ up[r].error.source = "none"
              /\ f.cloudinaryUrl = up[r].result.secure_url
              /\ f.cloudinaryUrl \in cloud

\* C1 witness: one upload's storage call has failed while another upload, in
\* the same run, has inserted its document.
C1_Witness ==
    \E r, q \in UpReqs :
        /\ r # q
        /\ StorageFailed(r) /\ up[r].pc = "done"
        /\ saved[q] # {} /\ saved[q] \subseteq Docs

\* C5: a request whose file is larger than the 10 MiB limit is refused by
\* multer: it never starts a storage upload, stores no object, inserts no
\* document, and is answered with an error.
C5_OversizeRejectedBeforeStorage ==
    \A r \in UpReqs :
        (up[r].sent # Null /\ up[r].sent.size > FILE_SIZE_LIMIT) =>
            /\ storageCalls[r] = 0
            /\ saved[r] = {}
            /\ up[r].result = Null /\ up[r].doc = Null
            /\ up[r].pc = "done"
            /\ Answered(r) /\ Answer(r).status >= 400

\* C5 witness: an oversize upload has been answered while another upload went
\* through to the storage.
C5_Witness ==
    \E r, q \in UpReqs :
        /\ up[r].sent # Null /\ up[r].sent.size > FILE_SIZE_LIMIT
        /\ up[r].pc = "done"
        /\ storageCalls[q] = 1

\* C6: a request without a file field is answered 400 "No file uploaded",
\* starts no storage upload and inserts no document.
C6_NoFileIsClientError ==
    \A r \in UpReqs :
        (up[r].pc # "new" /\ up[r].sent = Null) =>
            /\ storageCalls[r] = 0
            /\ saved[r] = {}
            /\ up[r].pc = "done"
            /\ upResp[r] = <<[status |-> 400, body |-> [error |-> "No file uploaded"]]>>

\* C6 witness: a request without a file has been answered, and the
\* collection and the storage are as they were.
C6_Witness ==
    \E r \in UpReqs :
        /\ up[r].pc = "done" /\ up[r].sent = Null
        /\ Answer(r).status = 400
        /\ db = <<>> /\ cloud = {}

\* C7: an upload that fails downstream (storage callback error, stream error,
\* store write error) is answered 500 with the upstream error text in
\* `details`, and no document of it is in the collection; a request is never
\* answered twice, and is answered once when it has ended.
C7_DownstreamFailureIs500 ==
    \A r \in UpReqs :
        /\ Len(upResp[r]) <= 1
        /\ up[r].pc = "done" <=> Answered(r)
        /\ up[r].error.source \in {"cloudinary", "stream", "mongo"} =>
              /\ Answered(r)
              /\ Answer(r).status = 500
              /\ Carries(Answer(r).body.details, up[r].error.message)
              /\ saved[r] = {}
              /\ up[r].doc \notin Docs

\* C7 witness: the store write of an upload has failed after its object was
\* stored, and the request was answered 500.
C7_Witness ==
    \E r \in UpReqs :
        /\ up[r].error.source = "mongo"
        /\ up[r].result # Null /\ up[r].result.secure_url \in cloud
        /\ Answered(r) /\ Answer(r).status = 500

\* A step that answers GET /api/files with a list
ListStep == received' # received /\ UNCHANGED <<up, del>> /\ listResp'.status = 200

\* Upload request r was answered 200
Uploaded(r) == Answered(r) /\ Answer(r).status = 200

\* s holds every document of the collection, each once
IsWholeCollection(s) ==
    /\ Len(s) = Len(db)
    /\ {s[i] : i \in DOMAIN s} = Docs

\* s is in non-increasing order of uploadDate
IsNewestFirst(s) == \A i, j \in DOMAIN s : i < j => s[i].uploadDate >= s[j].uploadDate

\* C2 (first half): an upload answered 200 sent a file within the limit,
\* inserted exactly one document, and its answer carries that document's id
\* and its URL, which is not empty.
C2_ExactlyOneRecord ==
    \A r \in UpReqs :
        Uploaded(r) =>
            /\ up[r].sent # Null /\ up[r].sent.size <= FILE_SIZE_LIMIT
            /\ saved[r] = {up[r].doc}
            /\ Answer(r).body.file.id = up[r].doc._id
            /\ Answer(r).body.file.url = up[r].doc.cloudinaryUrl
            /\ Len(Answer(r).body.file.url) > 0

\* C2 as stated: the document of the upload answered last (the last one
\* inserted, no document having been deleted) is the first of the next list,
\* here even granted that no other document has the same uploadDate.
C2_UploadedIsListedFirst ==
    /\ []C2_ExactlyOneRecord
    /\ [][\A r \in UpReqs :
            (/\ ListStep
             /\ Uploaded(r) /\ Len(db) > 0 /\ up[r].doc = db[Len(db)]
             /\ \A q \in UpReqs : Uploaded(q) => up[q].doc \in Docs
             /\ \A g \in Docs \ {up[r].doc} : g.uploadDate # up[r].doc.uploadDate)
            => listResp'.files[1] = up[r].doc]_vars

\* C2 amended: an upload answered 200 inserted exactly one document, returned
\* with a non-empty URL; a later list, while the document is in the
\* collection, holds it after no document of an earlier uploadDate, so that it
\* is first when every other document has an earlier uploadDate.
C2_UploadedIsListedByDate ==
    /\ []C2_ExactlyOneRecord
    /\ [][\A r \in UpReqs :
            (ListStep /\ Uploaded(r) /\ up[r].doc \in Docs) =>
                LET s == listResp'.files
                    doc == up[r].doc
                IN  /\ \E k \in DOMAIN s :
                          /\ s[k] = doc
                          /\ \A i \in 1..(k - 1) : s[i].uploadDate >= doc.uploadDate
                    /\ (\A g \in Docs \ {doc} : g.uploadDate < doc.uploadDate)
                          => s[1] = doc]_vars

\* C2 witness: a list of two documents was answered whose first is the
\* document of the upload answered last.
C2_Witness ==
    \E r \in UpReqs :
        /\ Uploaded(r) /\ Len(db) = 2 /\ up[r].doc = db[2]
        /\ listResp # Null /\ listResp.status = 200
        /\ Len(listResp.files) = 2
        /\ listResp.files[1] = up[r].doc

\* C3 as stated: unless the store fails, a delete of an id that has a
\* document is answered 200 and the document is gone, and a delete of an id
\* that has no document is answered 404.
C3_UnknownIdIsNotFound ==
    \A d \in DelReqs :
        (del[d].pc = "done" /\ del[d].error.source # "mongo") =>
            IF del[d].file = Null
            THEN delResp[d][1].status = 404
            ELSE delResp[d][1].status = 200 /\ del[d].file \notin Docs

\* C4: GET /api/files answers the whole collection in non-increasing order of
\* uploadDate, whatever the insertion order: every answer the query can give
\* in a reachable state, and every answer given.
C4_ListNewestFirst ==
    /\ [](\A s \in FindSorted : IsWholeCollection(s) /\ IsNewestFirst(s))
    /\ [][ListStep => IsWholeCollection(listResp'.files) /\ IsNewestFirst(listResp'.files)]_vars

\* C4 witness: a list was answered newest first for a collection whose
\* insertion order is oldest first.
C4_Witness ==
    /\ listResp # Null /\ listResp.status = 200
    /\ Len(db) = 2 /\ db[1].uploadDate < db[2].uploadDate
    /\ listResp.files = <<db[2], db[1]>>

\* C4 witness of the other insertion order: the newer document was inserted
\* first (its upload overtook the older one's store write).
C4_WitnessOvertaken ==
    /\ listResp # Null /\ listResp.status = 200
    /\ Len(db) = 2 /\ db[1].uploadDate > db[2].uploadDate
    /\ listResp.files = db

\* C8: no step of a delete request changes the stored objects, and the
\* object of a deleted document is still stored.
C8_DeleteLeavesStorage ==
    /\ [](\A d \in DelReqs :
            (del[d].pc = "done" /\ del[d].file # Null) =>
                del[d].file.cloudinaryUrl \in cloud)
    /\ [][del' # del => cloud' = cloud]_vars

\* C8 witness: a document was deleted, the delete answered 200, and its
\* object is in the storage.
C8_Witness ==
    \E d \in DelReqs :
        /\ del[d].pc = "done" /\ del[d].file # Null
        /\ delResp[d][1].status = 200
        /\ del[d].file \notin Docs
        /\ del[d].file.cloudinaryUrl \in cloud

\* A delete of the document's id was answered 200
Deleted(f) ==
    \E d \in DelReqs : del[d].pc = "done" /\ del[d].file # Null /\ del[d].file._id = f._id

\* C9: however the uploads interleave, every upload that inserted a document
\* inserted one, with its own file's name and its own storage URL; the
\* documents of two uploads differ in id and URL; each is in the collection
\* once unless a delete removed it; the collection holds nothing else; and a
\* 200 answer describes the request's own document.
C9_IndependentRecords ==
    /\ \A r \in UpReqs :
          saved[r] # {} =>
              /\ saved[r] = {up[r].doc}
              /\ up[r].doc.filename = up[r].file.originalname
              /\ up[r].doc.cloudinaryUrl = up[r].result.secure_url
              /\ Cardinality({i \in DOMAIN db : db[i]._id = up[r].doc._id}) <= 1
              /\ up[r].doc \in Docs \/ Deleted(up[r].doc)
              /\ Uploaded(r) =>
                    Answer(r).body.file =
                        [id |-> up[r].doc._id, filename |-> up[r].file.originalname,
                         url |-> up[r].result.secure_url,
                         uploadDate |-> up[r].doc.uploadDate]
    /\ \A r, q \in UpReqs :
          (r # q /\ saved[r] # {} /\ saved[q] # {}) =>
              /\ up[r].doc._id # up[q].doc._id
              /\ up[r].doc.cloudinaryUrl # up[q].doc.cloudinaryUrl
    /\ Docs \subseteq UNION {saved[r] : r \in UpReqs}

\* C9 witness: two uploads of files of one name were both answered 200; the
\* first built its document first, the second inserted its document first.
C9_Witness ==
    /\ Uploaded(1) /\ Uploaded(2)
    /\ up[1].file.originalname = up[2].file.originalname
    /\ up[1].doc._id < up[2].doc._id
    /\ db = <<up[2].doc, up[1].doc>>

\* C10: in the client an upload starts only with a file selected and none in
\* progress, and sets the uploading flag; the flag is set exactly while the
\* POST is in flight; the step in which the POST settles clears it, whatever
\* the outcome, so a set flag is always cleared in the end; on success the
\* selection is cleared and fetchFiles is called.
C10_BusyFlagCleared ==
    /\ [](uploading <=> posting > 0)
    /\ [](posting <= 1)
    /\ [][posting' > posting => selectedFile # Null /\ ~uploading /\ uploading']_vars
    /\ [][posting' < posting => ~uploading']_vars
    /\ [][(posting' < posting /\ message' = <<"File uploaded successfully!">>)
            => selectedFile' = Null /\ fetching' = fetching + 1]_vars
    /\ (uploading ~> ~uploading)

\* C10 witness: a POST that got no answer has settled and the flag is clear,
\* the selection kept.
C10_Witness ==
    /\ message = <<"Upload failed: Cannot connect to server">>
    /\ ~uploading /\ posting = 0
    /\ selectedFile # Null

=============================================================================
